---- MODULE Spec2Model ----
(***************************************************************************)
(* Model of backend/api/sysSetting.py of MediaHelp: the six handlers of    *)
(* the /sysSetting router over the process-wide configuration store.       *)
(*                                                                         *)
(* Spec      one request at a time, each handler one atomic action.        *)
(* SpecConc  two update requests in flight, each handler split at its      *)
(*           calls of the configuration store.                             *)
(***************************************************************************)
EXTENDS Integers, Sequences, FiniteSets, TLC

VARIABLES
    store,        \* config_manager's mapping: setting name -> value
    pre,          \* the store as it was when the last request arrived
    last,         \* the last request: endpoint, argument, outcome, store calls
    seenGet,      \* Some(data of the latest successful GET /config), or None
    cfgUpdSince,  \* a PUT /config succeeded since that GET /config
    anyUpdSince,  \* any PUT succeeded since that GET /config
    proxyPut,     \* Some(body of the latest PUT /proxy/config) while no other PUT followed
    cfgPut,       \* Some(data returned by the latest PUT /config) while no other PUT followed
    nUpdates,     \* number of PUT requests that reached their handler
    pc,           \* SpecConc: position of each in-flight request
    req,          \* SpecConc: endpoint and argument of each in-flight request
    loc,          \* SpecConc: the handler's local variable (new_config / tg_config)
    ret,          \* SpecConc: what each request returned
    seen,         \* SpecConc: how many update_config calls preceded each request's read
    wlog,         \* SpecConc: the requests in the order of their update_config calls
    store0        \* SpecConc: the store before either request started

vars == <<store, pre, last, seenGet, cfgUpdSince, anyUpdSince, proxyPut, cfgPut,
          nUpdates, pc, req, loc, ret, seen, wlog, store0>>

histVars == <<pre, last, seenGet, cfgUpdSince, anyUpdSince, proxyPut, cfgPut, nUpdates>>
concVars == <<pc, req, loc, ret, seen, wlog, store0>>

(***************************************************************************)
(* Bounds                                                                  *)
(***************************************************************************)
MaxUpdates == 1     \* PUT requests per behaviour of Spec
MaxChannels == 2    \* length of a channels list

(***************************************************************************)
(* Python values: Optional, dict                                           *)
(***************************************************************************)
None == <<>>
Some(v) == <<v>>

EmptyMap == [k \in {} |-> ""]

\* dict.get(k, default)
Get(m, k, default) == IF k \in DOMAIN m THEN m[k] ELSE default

\* m[k] = v
Put(m, k, v) == [x \in DOMAIN m \cup {k} |-> IF x = k THEN v ELSE m[x]]

(***************************************************************************)
(* config_manager and get_current_user: the collaborators                  *)
(***************************************************************************)
\* config_manager.get_config(): the full snapshot
get_config(st) == st

\* config_manager.update_config(partial): shallow merge of the top-level keys
update_config(st, partial) ==
    [k \in DOMAIN st \cup DOMAIN partial |->
        IF k \in DOMAIN partial THEN partial[k] ELSE st[k]]

\* Depends(get_current_user): the handler body runs only for valid credentials
Authenticated(credentials) == credentials = "valid"

Credentials == {"valid", "invalid"}

\* Variant: the Depends(get_current_user) parameter left out of the signatures
CurrentUser_omitted(credentials) == TRUE

\* current_user: User = Depends(get_current_user), the parameter of every handler
CurrentUser(credentials) == Authenticated(credentials)

\* the requests in flight in SpecConc
Requests == {1, 2}

(***************************************************************************)
(* Schemas                                                                 *)
(***************************************************************************)
StringFields == {"emby_url", "emby_api_key", "alist_url", "alist_api_key",
                 "tianyiAccount", "tianyiPassword", "quarkCookie",
                 "proxy_host", "proxy_port", "proxy_username", "proxy_password"}

SysSettingFields == StringFields \cup {"use_proxy"}

ProxyFields == {"use_proxy", "proxy_host", "proxy_port", "proxy_username",
                "proxy_password"}

StrVals == {"", "x"}

\* A SysSettingUpdate body: every field Optional, None when unset
Body(vals) ==
    [f \in SysSettingFields |-> IF f \in DOMAIN vals THEN Some(vals[f]) ELSE None]

\* Request bodies of PUT /config: nothing set; any one of the twelve fields set;
\* several fields set at once (the first and the last string field, use_proxy)
SysSettingUpdate ==
    {Body(EmptyMap)}
    \cup { Body([g \in {f} |-> v]) : <<f, v>> \in StringFields \X StrVals }
    \cup { Body([use_proxy |-> b]) : b \in BOOLEAN }
    \cup { Body([emby_url |-> v, proxy_password |-> w]) : <<v, w>> \in StrVals \X StrVals }
    \cup { Body([emby_url |-> v, use_proxy |-> b]) : <<v, b>> \in StrVals \X BOOLEAN }
    \cup { Body([emby_url |-> v, use_proxy |-> b, proxy_password |-> v]) :
             <<v, b>> \in StrVals \X BOOLEAN }

\* Request bodies of PUT /proxy/config: all five fields required
ProxyStrings ==
    { [proxy_host |-> "",  proxy_port |-> "",  proxy_username |-> "",  proxy_password |-> ""],
      [proxy_host |-> "a", proxy_port |-> "a", proxy_username |-> "a", proxy_password |-> "a"],
      [proxy_host |-> "x", proxy_port |-> "",  proxy_username |-> "a", proxy_password |-> "x"],
      [proxy_host |-> "",  proxy_port |-> "x", proxy_username |-> "",  proxy_password |-> "a"] }

ProxyConfig ==
    { [f \in ProxyFields |-> IF f = "use_proxy" THEN b ELSE sv[f]] :
      <<sv, b>> \in ProxyStrings \X BOOLEAN }

\* TGChannel objects (id, name) and channel.dict()
TGChannel == {<<"y", "Y">>, <<"z", "Z">>}

ChannelDict(channel) == [id |-> channel[1], name |-> channel[2]]

\* List[TGChannel] bodies: up to MaxChannels channels, no id twice
ChannelLists ==
    { l \in UNION { [1..n -> TGChannel] : n \in 0..MaxChannels } :
        \A i, j \in 1..Len(l) : i # j => l[i] # l[j] }

\* Dict[str, str] bodies for patterns
PatternMaps == { EmptyMap, [c |-> "z"], [a |-> "z", c |-> "z"] }

OptChannels == {None} \cup { Some(l) : l \in ChannelLists }
OptPatterns == {None} \cup { Some(m) : m \in PatternMaps }

(***************************************************************************)
(* The handlers' computations                                              *)
(***************************************************************************)
\* Variant: "if config.<field>:" in place of "is not None" ("" and False are skipped)
SetIfTruthy(new_config, config, field) ==
    IF config[field] # None
       /\ config[field] # (IF field = "use_proxy" THEN Some(FALSE) ELSE Some(""))
    THEN Put(new_config, field, config[field][1])
    ELSE new_config

\* Variant: every field copied, an unset one as its empty value (replace semantics)
SetAlways(new_config, config, field) ==
    Put(new_config, field,
        IF config[field] # None THEN config[field][1]
        ELSE IF field = "use_proxy" THEN FALSE ELSE "")

\* if config.<field> is not None: new_config["<field>"] = config.<field>
SetIfNotNone(new_config, config, field) ==
    IF config[field] # None THEN Put(new_config, field, config[field][1])
    ELSE new_config

\* update_system_config, the staging mapping
StagingConfig(config) ==
    LET n0  == EmptyMap
        n1  == SetIfNotNone(n0, config, "emby_url")
        n2  == SetIfNotNone(n1, config, "emby_api_key")
        n3  == SetIfNotNone(n2, config, "alist_url")
        n4  == SetIfNotNone(n3, config, "alist_api_key")
        n5  == SetIfNotNone(n4, config, "tianyiAccount")
        n6  == SetIfNotNone(n5, config, "tianyiPassword")
        n7  == SetIfNotNone(n6, config, "quarkCookie")
        n8  == SetIfNotNone(n7, config, "use_proxy")
        n9  == SetIfNotNone(n8, config, "proxy_host")
        n10 == SetIfNotNone(n9, config, "proxy_port")
        n11 == SetIfNotNone(n10, config, "proxy_username")
        n12 == SetIfNotNone(n11, config, "proxy_password")
    IN  n12

\* Variant: a proxy_port default other than the empty string
ProxyProjection_port(config) ==
    [use_proxy      |-> Get(config, "use_proxy", FALSE),
     proxy_host     |-> Get(config, "proxy_host", ""),
     proxy_port     |-> Get(config, "proxy_port", "7890"),
     proxy_username |-> Get(config, "proxy_username", ""),
     proxy_password |-> Get(config, "proxy_password", "")]

\* get_proxy_config, the projection with its defaults
ProxyProjection(config) ==
    [use_proxy      |-> Get(config, "use_proxy", FALSE),
     proxy_host     |-> Get(config, "proxy_host", ""),
     proxy_port     |-> Get(config, "proxy_port", ""),
     proxy_username |-> Get(config, "proxy_username", ""),
     proxy_password |-> Get(config, "proxy_password", "")]

\* Variant: proxy_password missing from the mapping
ProxyNewConfig_short(config) ==
    [use_proxy      |-> config.use_proxy,
     proxy_host     |-> config.proxy_host,
     proxy_port     |-> config.proxy_port,
     proxy_username |-> config.proxy_username]

\* update_proxy_config, the mapping handed to update_config
ProxyNewConfig(config) ==
    [use_proxy      |-> config.use_proxy,
     proxy_host     |-> config.proxy_host,
     proxy_port     |-> config.proxy_port,
     proxy_username |-> config.proxy_username,
     proxy_password |-> config.proxy_password]

\* get_tg_resource_config / update_tg_resource_config: config.get("tg_resource", {})
TGConfigOf(config) == Get(config, "tg_resource", EmptyMap)

\* Variant: the channels appended to the stored list (extend in place of assign)
SetChannels_extend(tg_config, channels) ==
    [tg_config EXCEPT !["telegram"] =
        Put(@, "channels",
            Get(@, "channels", <<>>) \o
              [i \in 1..Len(channels) |-> ChannelDict(channels[i])])]

\* tg_config["telegram"]["channels"] = [channel.dict() for channel in channels]
SetChannels(tg_config, channels) ==
    [tg_config EXCEPT !["telegram"] =
        Put(@, "channels", [i \in 1..Len(channels) |-> ChannelDict(channels[i])])]

\* Variant: tg_config["cloudPatterns"].update(patterns), a per-key merge
SetPatterns_merge(tg_config, patterns) ==
    Put(tg_config, "cloudPatterns",
        update_config(Get(tg_config, "cloudPatterns", EmptyMap), patterns))

\* tg_config["cloudPatterns"] = patterns
SetPatterns(tg_config, patterns) == Put(tg_config, "cloudPatterns", patterns)

\* Variant: tg_config.setdefault("telegram", {}) before the channels assignment
TGApply_setdefault(tg_config, channels, patterns) ==
    LET t0 == IF channels # None /\ "telegram" \notin DOMAIN tg_config
              THEN Put(tg_config, "telegram", EmptyMap) ELSE tg_config
        t1 == IF channels # None THEN SetChannels(t0, channels[1]) ELSE t0
        t2 == IF patterns # None THEN SetPatterns(t1, patterns[1]) ELSE t1
    IN  [raised |-> FALSE, tg_config |-> t2]

\* update_tg_resource_config, the two "is not None" branches; tg_config["telegram"]
\* raises KeyError when the key is missing, before anything is assigned
TGApply(tg_config, channels, patterns) ==
    IF channels # None /\ "telegram" \notin DOMAIN tg_config
    THEN [raised |-> TRUE, tg_config |-> tg_config]
    ELSE LET t1 == IF channels # None THEN SetChannels(tg_config, channels[1])
                   ELSE tg_config
             t2 == IF patterns # None THEN SetPatterns(t1, patterns[1]) ELSE t1
         IN  [raised |-> FALSE, tg_config |-> t2]

(***************************************************************************)
(* Stored configurations a deployment starts from                          *)
(***************************************************************************)
ScalarParts ==
    { EmptyMap,
      [emby_url |-> "a", alist_url |-> "b", use_proxy |-> TRUE, proxy_host |-> "h"],
      [f \in SysSettingFields |-> IF f = "use_proxy" THEN TRUE ELSE "a"] }

StoredChannels == <<[id |-> "x", name |-> "X"]>>

\* tg_resource: absent, without telegram, with telegram, with both sub-sections
TGParts ==
    { None,
      Some([cloudPatterns |-> [a |-> "x", b |-> "y"]]),
      Some([telegram |-> [baseUrl |-> "https://t.me/s", channels |-> StoredChannels]]),
      Some([telegram |-> [baseUrl |-> "https://t.me/s", channels |-> StoredChannels],
            cloudPatterns |-> [a |-> "x", b |-> "y"]]) }

InitStores ==
    { IF tg = None THEN sc ELSE Put(sc, "tg_resource", tg[1]) :
      <<sc, tg>> \in
        { c \in ScalarParts \X TGParts :
            (c[1] = EmptyMap) = ("cloudPatterns" \notin DOMAIN Get(c[2], 1, EmptyMap)) } }

(***************************************************************************)
(* Spec: one request at a time                                             *)
(***************************************************************************)
NoRequest ==
    [op |-> "none", cred |-> "valid", status |-> "none", arg |-> None, data |-> None,
     reads |-> 0, writes |-> 0, written |-> None,
     before |-> None, cfgUpd |-> FALSE, anyUpd |-> FALSE]

Outcome(op, credentials, status) ==
    [NoRequest EXCEPT !.op = op, !.cred = credentials, !.status = status]

\* get_current_user raised: the handler body never ran
Reject(op, credentials) ==
    /\ last' = Outcome(op, credentials, "auth_failed")
    /\ pre' = store
    /\ UNCHANGED <<store, seenGet, cfgUpdSince, anyUpdSince, proxyPut, cfgPut, nUpdates>>

\* Variant: the handler drops quarkCookie from the mapping the store handed out
get_system_config_pop(credentials) ==
    /\ IF ~CurrentUser(credentials) THEN Reject("GetConfig", credentials)
       ELSE LET config == get_config(store)
                shown == [k \in DOMAIN config \ {"quarkCookie"} |-> config[k]]
            IN  /\ last' = [Outcome("GetConfig", credentials, "ok") EXCEPT
                                 !.data = Some(shown), !.reads = 1,
                                 !.before = seenGet, !.cfgUpd = cfgUpdSince,
                                 !.anyUpd = anyUpdSince]
                /\ store' = shown
                /\ seenGet' = Some(shown)
                /\ cfgUpdSince' = FALSE
                /\ anyUpdSince' = FALSE
                /\ pre' = store
                /\ UNCHANGED <<proxyPut, cfgPut, nUpdates>>
    /\ UNCHANGED concVars

\* GET /sysSetting/config
get_system_config(credentials) ==
    /\ IF ~CurrentUser(credentials) THEN Reject("GetConfig", credentials)
       ELSE LET config == get_config(store)
            IN  /\ last' = [Outcome("GetConfig", credentials, "ok") EXCEPT
                                 !.data = Some(config), !.reads = 1,
                                 !.before = seenGet, !.cfgUpd = cfgUpdSince,
                                 !.anyUpd = anyUpdSince]
                /\ seenGet' = Some(config)
                /\ cfgUpdSince' = FALSE
                /\ anyUpdSince' = FALSE
                /\ pre' = store
                /\ UNCHANGED <<store, proxyPut, cfgPut, nUpdates>>
    /\ UNCHANGED concVars

\* PUT /sysSetting/config
update_system_config(credentials, config) ==
    /\ nUpdates < MaxUpdates
    /\ IF ~CurrentUser(credentials) THEN Reject("UpdateConfig", credentials)
       ELSE LET new_config == StagingConfig(config)
                st1 == update_config(store, new_config)
                updated_config == get_config(st1)
            IN  /\ store' = st1
                /\ last' = [Outcome("UpdateConfig", credentials, "ok") EXCEPT
                                 !.arg = Some(config), !.data = Some(updated_config),
                                 !.reads = 1, !.writes = 1,
                                 !.written = Some(new_config)]
                /\ pre' = store
                /\ cfgUpdSince' = TRUE
                /\ anyUpdSince' = TRUE
                /\ cfgPut' = Some(updated_config)
                /\ proxyPut' = None
                /\ nUpdates' = nUpdates + 1
                /\ UNCHANGED seenGet
    /\ UNCHANGED concVars

\* GET /sysSetting/proxy/config
get_proxy_config(credentials) ==
    /\ IF ~CurrentUser(credentials) THEN Reject("GetProxyConfig", credentials)
       ELSE LET config == get_config(store)
                proxy_config == ProxyProjection(config)
            IN  /\ last' = [Outcome("GetProxyConfig", credentials, "ok") EXCEPT
                                 !.data = Some(proxy_config), !.reads = 1]
                /\ pre' = store
                /\ UNCHANGED <<store, seenGet, cfgUpdSince, anyUpdSince, proxyPut,
                               cfgPut, nUpdates>>
    /\ UNCHANGED concVars

\* PUT /sysSetting/proxy/config
update_proxy_config(credentials, config) ==
    /\ nUpdates < MaxUpdates
    /\ IF ~CurrentUser(credentials) THEN Reject("UpdateProxyConfig", credentials)
       ELSE LET new_config == ProxyNewConfig(config)
            IN  /\ store' = update_config(store, new_config)
                /\ last' = [Outcome("UpdateProxyConfig", credentials, "ok") EXCEPT
                                 !.arg = Some(config), !.data = Some(config),
                                 !.writes = 1,
                                 !.written = Some(new_config)]
                /\ pre' = store
                /\ anyUpdSince' = TRUE
                /\ proxyPut' = Some(config)
                /\ cfgPut' = None
                /\ nUpdates' = nUpdates + 1
                /\ UNCHANGED <<seenGet, cfgUpdSince>>
    /\ UNCHANGED concVars

\* GET /sysSetting/tg-resource/config
get_tg_resource_config(credentials) ==
    /\ IF ~CurrentUser(credentials) THEN Reject("GetTGResourceConfig", credentials)
       ELSE LET config == get_config(store)
            IN  /\ last' = [Outcome("GetTGResourceConfig", credentials, "ok") EXCEPT
                                 !.data = Some(TGConfigOf(config)), !.reads = 1]
                /\ pre' = store
                /\ UNCHANGED <<store, seenGet, cfgUpdSince, anyUpdSince, proxyPut,
                               cfgPut, nUpdates>>
    /\ UNCHANGED concVars

\* PUT /sysSetting/tg-resource/config
update_tg_resource_config(credentials, channels, patterns) ==
    /\ nUpdates < MaxUpdates
    /\ IF ~CurrentUser(credentials) THEN Reject("UpdateTGResourceConfig", credentials)
       ELSE LET config == get_config(store)
                tg_config == TGConfigOf(config)
                applied == TGApply(tg_config, channels, patterns)
                new_config == [tg_resource |-> applied.tg_config]
            IN  IF applied.raised
                THEN \* KeyError propagates: update_config is never called
                     /\ last' = [Outcome("UpdateTGResourceConfig", credentials,
                                         "key_error") EXCEPT
                                      !.arg = Some(<<channels, patterns>>),
                                      !.reads = 1]
                     /\ pre' = store
                     /\ nUpdates' = nUpdates + 1
                     /\ UNCHANGED <<store, seenGet, cfgUpdSince, anyUpdSince, proxyPut,
                                    cfgPut>>
                ELSE /\ store' = update_config(store, new_config)
                     /\ last' = [Outcome("UpdateTGResourceConfig", credentials,
                                         "ok") EXCEPT
                                      !.arg = Some(<<channels, patterns>>),
                                      !.reads = 1, !.writes = 1,
                                      !.written = Some(new_config)]
                     /\ pre' = store
                     /\ anyUpdSince' = TRUE
                     /\ proxyPut' = None
                     /\ cfgPut' = None
                     /\ nUpdates' = nUpdates + 1
                     /\ UNCHANGED <<seenGet, cfgUpdSince>>
    /\ UNCHANGED concVars

Init ==
    /\ store \in InitStores
    /\ pre = store
    /\ last = NoRequest
    /\ seenGet = None
    /\ cfgUpdSince = FALSE
    /\ anyUpdSince = FALSE
    /\ proxyPut = None
    /\ cfgPut = None
    /\ nUpdates = 0
    /\ pc = [r \in Requests |-> "idle"]
    /\ req = [r \in Requests |-> None]
    /\ loc = [r \in Requests |-> None]
    /\ ret = [r \in Requests |-> None]
    /\ seen = [r \in Requests |-> 0]
    /\ wlog = <<>>
    /\ store0 = store

Next ==
    \/ \E credentials \in Credentials : get_system_config(credentials)
    \/ \E credentials \in Credentials, config \in SysSettingUpdate :
         update_system_config(credentials, config)
    \/ \E credentials \in Credentials : get_proxy_config(credentials)
    \/ \E credentials \in Credentials, config \in ProxyConfig :
         update_proxy_config(credentials, config)
    \/ \E credentials \in Credentials : get_tg_resource_config(credentials)
    \/ \E credentials \in Credentials, channels \in OptChannels, patterns \in OptPatterns :
         update_tg_resource_config(credentials, channels, patterns)

Spec == Init /\ [][Next]_vars

(***************************************************************************)
(* SpecConc: two PUT requests in flight.  Both passed get_current_user;    *)
(* a handler is split at its calls of config_manager, which are atomic.    *)
(***************************************************************************)
ConcRequests ==
    { [op |-> "UpdateConfig", config |-> Some(c), channels |-> None, patterns |-> None] :
        c \in SysSettingUpdate }
    \cup
    { [op |-> "UpdateTGResourceConfig", config |-> None, channels |-> ch, patterns |-> pt] :
        <<ch, pt>> \in OptChannels \X OptPatterns }

\* update_system_config: new_config = {} and the twelve "is not None" copies
cfg_build(r) ==
    /\ pc[r] = "start"
    /\ req[r].op = "UpdateConfig"
    /\ loc' = [loc EXCEPT ![r] = Some(StagingConfig(req[r].config[1]))]
    /\ pc' = [pc EXCEPT ![r] = "staged"]
    /\ UNCHANGED <<store, req, ret, seen, wlog, store0>>
    /\ UNCHANGED histVars

\* update_system_config: config_manager.update_config(new_config)
cfg_write(r) ==
    /\ pc[r] = "staged"
    /\ store' = update_config(store, loc[r][1])
    /\ wlog' = Append(wlog, r)
    /\ pc' = [pc EXCEPT ![r] = "written"]
    /\ UNCHANGED <<req, loc, ret, seen, store0>>
    /\ UNCHANGED histVars

\* update_system_config: updated_config = config_manager.get_config(); return
cfg_reread(r) ==
    /\ pc[r] = "written"
    /\ ret' = [ret EXCEPT ![r] = Some(get_config(store))]
    /\ seen' = [seen EXCEPT ![r] = Len(wlog)]
    /\ pc' = [pc EXCEPT ![r] = "done"]
    /\ UNCHANGED <<store, req, loc, wlog, store0>>
    /\ UNCHANGED histVars

\* update_tg_resource_config: config = get_config(); tg_config = config.get(...)
tg_read(r) ==
    /\ pc[r] = "start"
    /\ req[r].op = "UpdateTGResourceConfig"
    /\ loc' = [loc EXCEPT ![r] = Some(TGConfigOf(get_config(store)))]
    /\ seen' = [seen EXCEPT ![r] = Len(wlog)]
    /\ pc' = [pc EXCEPT ![r] = "read"]
    /\ UNCHANGED <<store, req, ret, wlog, store0>>
    /\ UNCHANGED histVars

\* update_tg_resource_config: the two assignments to the local tg_config
tg_apply(r) ==
    /\ pc[r] = "read"
    /\ LET applied == TGApply(loc[r][1], req[r].channels, req[r].patterns)
       IN  IF applied.raised
           THEN /\ pc' = [pc EXCEPT ![r] = "key_error"]
                /\ UNCHANGED loc
           ELSE /\ pc' = [pc EXCEPT ![r] = "applied"]
                /\ loc' = [loc EXCEPT ![r] = Some(applied.tg_config)]
    /\ UNCHANGED <<store, req, ret, seen, wlog, store0>>
    /\ UNCHANGED histVars

\* Variant: the handler reads the store again as it writes
tg_write_fresh(r) ==
    /\ pc[r] = "applied"
    /\ store' = update_config(store,
           [tg_resource |-> TGApply(TGConfigOf(get_config(store)),
                                    req[r].channels, req[r].patterns).tg_config])
    /\ wlog' = Append(wlog, r)
    /\ pc' = [pc EXCEPT ![r] = "done"]
    /\ UNCHANGED <<req, loc, ret, seen, store0>>
    /\ UNCHANGED histVars

\* update_tg_resource_config: update_config({"tg_resource": tg_config}); return
tg_write(r) ==
    /\ pc[r] = "applied"
    /\ store' = update_config(store, [tg_resource |-> loc[r][1]])
    /\ wlog' = Append(wlog, r)
    /\ pc' = [pc EXCEPT ![r] = "done"]
    /\ UNCHANGED <<req, loc, ret, seen, store0>>
    /\ UNCHANGED histVars

InitConc ==
    /\ store \in InitStores
    /\ store0 = store
    /\ req \in [Requests -> ConcRequests]
    /\ pc = [r \in Requests |-> "start"]
    /\ loc = [r \in Requests |-> None]
    /\ ret = [r \in Requests |-> None]
    /\ seen = [r \in Requests |-> 0]
    /\ wlog = <<>>
    /\ pre = store
    /\ last = NoRequest
    /\ seenGet = None
    /\ cfgUpdSince = FALSE
    /\ anyUpdSince = FALSE
    /\ proxyPut = None
    /\ cfgPut = None
    /\ nUpdates = 0

NextConc ==
    \/ \E r \in Requests : cfg_build(r)
    \/ \E r \in Requests : cfg_write(r)
    \/ \E r \in Requests : cfg_reread(r)
    \/ \E r \in Requests : tg_read(r)
    \/ \E r \in Requests : tg_apply(r)
    \/ \E r \in Requests : tg_write(r)

SpecConc == InitConc /\ [][NextConc]_vars

(***************************************************************************)
(* Properties                                                              *)
(***************************************************************************)
\* Some(m[k]) when the key is there, None when it is not
OptGet(m, k) == IF k \in DOMAIN m THEN Some(m[k]) ELSE None

\* the fields a SysSettingUpdate body sets
Present(config) == { f \in SysSettingFields : config[f] # None }

Succeeded(op) == last.op = op /\ last.status = "ok"

\* C1: UpdateConfig(P) with present fields F sets every key of F to P's value
\* (also "" and false), leaves every other key of the store as it was, returns
\* the merged mapping, and a GetConfig that follows shows the same mapping.
C1_UpdateConfigMerges ==
    /\ Succeeded("UpdateConfig") =>
         LET P == last.arg[1]
             F == Present(P)
         IN  /\ DOMAIN store = DOMAIN pre \cup F
             /\ \A k \in F : store[k] = P[k][1]
             /\ \A k \in DOMAIN store \ F : store[k] = pre[k]
             /\ last.data = Some(store)
    /\ (Succeeded("GetConfig") /\ cfgPut # None) => last.data = cfgPut

C1_Witness ==
    /\ Succeeded("GetConfig")
    /\ cfgPut # None
    /\ OptGet(store, "emby_url") = Some("")
    /\ OptGet(store, "use_proxy") = Some(FALSE)
    /\ OptGet(store, "alist_url") = Some("b")
    /\ OptGet(store, "proxy_host") = Some("h")

\* C2: UpdateProxyConfig(p) hands all five proxy fields to update_config, whatever
\* the store held, leaves them in the store and returns p; a GetProxyConfig that
\* follows it with no other update in between returns exactly p.
C2_ProxyFullReplace ==
    /\ Succeeded("UpdateProxyConfig") =>
         LET p == last.arg[1]
         IN  /\ last.writes = 1
             /\ last.written # None
             /\ DOMAIN last.written[1] = ProxyFields
             /\ \A f \in ProxyFields : last.written[1][f] = p[f]
             /\ \A f \in ProxyFields : OptGet(store, f) = Some(p[f])
             /\ last.data = Some(p)
    /\ (Succeeded("GetProxyConfig") /\ proxyPut # None) => last.data = proxyPut

C2_Witness ==
    /\ Succeeded("GetProxyConfig")
    /\ proxyPut # None
    /\ proxyPut[1].use_proxy = FALSE
    /\ proxyPut[1].proxy_host = "x"
    /\ proxyPut[1].proxy_port = ""
    /\ "emby_url" \in DOMAIN store

\* the stored tg_resource, before and after the last request
TGBefore == TGConfigOf(pre)
TGAfter == TGConfigOf(store)

C4_ChannelsReplaced ==
    Succeeded("UpdateTGResourceConfig") =>
        LET channels == last.arg[1][1]
            patterns == last.arg[1][2]
        IN  /\ (channels # None) =>
                 /\ "telegram" \in DOMAIN TGBefore
                 /\ "telegram" \in DOMAIN TGAfter
                 /\ "channels" \in DOMAIN TGAfter.telegram
                 /\ Len(TGAfter.telegram.channels) = Len(channels[1])
                 /\ \A i \in 1..Len(channels[1]) :
                      TGAfter.telegram.channels[i] =
                        [id |-> channels[1][i][1], name |-> channels[1][i][2]]
                 /\ OptGet(TGAfter.telegram, "baseUrl") = OptGet(TGBefore.telegram, "baseUrl")
            /\ (channels = None) =>
                 OptGet(TGAfter, "telegram") = OptGet(TGBefore, "telegram")
            /\ (patterns = None) =>
                 OptGet(TGAfter, "cloudPatterns") = OptGet(TGBefore, "cloudPatterns")

C4_Witness ==
    /\ Succeeded("UpdateTGResourceConfig")
    /\ last.arg[1][1] = Some(<< <<"z", "Z">>, <<"y", "Y">> >>)
    /\ last.arg[1][2] = None
    /\ TGBefore.telegram.channels = StoredChannels
    /\ TGAfter.telegram.channels = <<[id |-> "z", name |-> "Z"], [id |-> "y", name |-> "Y"]>>
    /\ TGAfter.telegram.baseUrl = "https://t.me/s"
    /\ OptGet(TGAfter, "cloudPatterns") = Some([a |-> "x", b |-> "y"])

\* C5: a request whose authentication fails, on any endpoint, makes no call of
\* the configuration store, leaves the store as it was and gets the
\* authentication failure, never a success envelope.
C5_UnauthenticatedNeverReachesStore ==
    /\ last.cred = "invalid" =>
         /\ last.status = "auth_failed"
         /\ last.reads = 0
         /\ last.writes = 0
         /\ last.written = None
         /\ last.data = None
         /\ store = pre
    /\ last.status = "auth_failed" => last.cred = "invalid"

C5_Witness ==
    /\ last.op = "UpdateTGResourceConfig"
    /\ last.cred = "invalid"
    /\ last.status = "auth_failed"
    /\ "tg_resource" \in DOMAIN store

\* C6 as stated: two GetConfig calls with no UpdateConfig between them return
\* identical mappings.
C6_Original ==
    (Succeeded("GetConfig") /\ last.before # None /\ ~last.cfgUpd) =>
        last.data = last.before

\* C6, amended: two GetConfig calls with no successful update of any kind between
\* them (UpdateConfig, UpdateProxyConfig, UpdateTGResourceConfig) return identical
\* mappings, and GetConfig leaves the store as it was.
C6_GetConfigIdempotent ==
    Succeeded("GetConfig") =>
        /\ store = pre
        /\ last.data = Some(store)
        /\ (last.before # None /\ ~last.anyUpd) => last.data = last.before

C6_Witness ==
    /\ Succeeded("GetConfig")
    /\ last.before # None
    /\ ~last.anyUpd
    /\ nUpdates = 1
    /\ last.data = last.before
    /\ "quarkCookie" \in DOMAIN store

\* the default get_proxy_config gives a field the store does not hold
ProxyDefault(f) == IF f = "use_proxy" THEN Some(FALSE) ELSE Some("")

\* C7: GetProxyConfig returns the five proxy fields and no other key; a field the
\* store holds comes with its stored value, a missing one as false / "".
C7_ProxyProjection ==
    Succeeded("GetProxyConfig") =>
        /\ DOMAIN last.data[1] = ProxyFields
        /\ \A f \in ProxyFields :
             Some(last.data[1][f]) =
               (IF f \in DOMAIN store THEN Some(store[f]) ELSE ProxyDefault(f))

C7_Witness ==
    /\ Succeeded("GetProxyConfig")
    /\ OptGet(store, "proxy_host") = Some("h")
    /\ "proxy_port" \notin DOMAIN store
    /\ "emby_url" \in DOMAIN store
    /\ last.data[1].proxy_host = "h"
    /\ last.data[1].proxy_port = ""

\* C8: UpdateTGResourceConfig with channels given while the store holds no
\* tg_resource.telegram fails with the missing-key error, never calls
\* update_config and leaves the store as it was, also when patterns was given.
C8_MissingTelegramFails ==
    (/\ last.op = "UpdateTGResourceConfig"
     /\ last.cred = "valid"
     /\ last.arg[1][1] # None
     /\ "telegram" \notin DOMAIN TGBefore) =>
        /\ last.status = "key_error"
        /\ last.writes = 0
        /\ last.written = None
        /\ store = pre

C8_Witness ==
    /\ last.op = "UpdateTGResourceConfig"
    /\ last.status = "key_error"
    /\ last.arg[1][1] # None
    /\ last.arg[1][2] = Some([c |-> "z"])
    /\ "telegram" \notin DOMAIN TGBefore
    /\ OptGet(TGAfter, "cloudPatterns") = Some([a |-> "x", b |-> "y"])

BothDone(op) == \A r \in Requests : req[r].op = op /\ pc[r] = "done"

\* the fields request r's body sets, and the value it sets field k to
Touched(r) == Present(req[r].config[1])
Sent(r, k) == req[r].config[1][k][1]

\* C9: two concurrent UpdateConfig requests, their steps (build the staging
\* mapping, merge-write, re-read) interleaved in any order: once both are done the
\* store holds, for a field only one of them set, that request's value; for a
\* field both set, the value of the request whose merge-write came last; every
\* other key is as it was before the two.
C9_ConcurrentUpdatesMerge ==
    BothDone("UpdateConfig") =>
        /\ Len(wlog) = 2
        /\ DOMAIN store = DOMAIN store0 \cup Touched(1) \cup Touched(2)
        /\ \A k \in Touched(1) \ Touched(2) : store[k] = Sent(1, k)
        /\ \A k \in Touched(2) \ Touched(1) : store[k] = Sent(2, k)
        /\ \A k \in Touched(1) \cap Touched(2) : store[k] = Sent(wlog[2], k)
        /\ \A k \in DOMAIN store \ (Touched(1) \cup Touched(2)) : store[k] = store0[k]

C9_Witness ==
    /\ BothDone("UpdateConfig")
    /\ Touched(1) = {"emby_url", "use_proxy"}
    /\ Touched(2) = {"proxy_password"}
    /\ wlog = <<2, 1>>
    /\ seen[2] = 1
    /\ ret[2] # Some(store)
    /\ OptGet(store0, "proxy_password") # OptGet(store, "proxy_password")
    /\ OptGet(store0, "emby_url") # OptGet(store, "emby_url")

====
